---- MODULE Spec2Model ----
(***************************************************************************)
(* The Refactoring Swarm: the Orchestrator, the LangGraph workflow         *)
(* (audit -> fix -> test -> {fix | END | error -> END}), the routing       *)
(* condition and the three agent wrappers, as one state machine.           *)
(*                                                                         *)
(* Code under repair is abstracted to what the agents look at: whether it  *)
(* is empty, whether it parses, and which pass produced it (ver 0 is the   *)
(* file on disk, ver n the output of the n-th Fixer pass).  The answers of *)
(* the collaborators (LLM, subprocess tools, file I/O) are inputs drawn    *)
(* with \E in the action that makes the call.                              *)
(***************************************************************************)
EXTENDS Integers, Sequences, FiniteSets, TLC

\* ------------------------------------------------------------------ bounds

\* Files enumerated by one run of the Orchestrator.
MaxFiles == 1

\* Largest --max_iterations tried.
MaxIter == 2

\* Quality scores are abstracted from 0.0 .. 10.0 to 0 .. MaxScore.
MaxScore == 1
NumFiles == 2
FilesIter == 1
MaxPathLen == 3
NumThreads == 2
MaxLogLen == 3

\* ------------------------------------------------------------- constants

\* judge_agent.py:86  agent_outputs.get("original_pylint_score", 0.0)
DefaultOriginalScore == 0

\* orchestrator.py:153  "iteration": 1
InitialIteration == 1

\* ------------------------------------------------------------ data model

None == <<>>
Some(v) == <<v>>

Scores == 0..MaxScore

\* The counters of agent calls stop counting at RunsCap, above every count
\* a run of the program reaches, so that a run that never ends still has
\* finitely many states.
RunsCap == MaxIter + 1

Count(n) == IF n < RunsCap THEN n + 1 ELSE n

\* The values of --max_iterations: a cap on a count, 0 included.  (The CLI
\* does not reject a negative value; it is left out, being below the
\* count of cycles and the retry_count of every state, the first included.)
IterValues == 0..MaxIter

\* A code text: kind is all the agents and tools can tell about it.
Code(kind, ver) == [kind |-> kind, ver |-> ver]

\* What the target directory holds: a file that cannot be read, an empty
\* file, a file with a syntax error, or a file that parses and has the
\* static-quality score `score`.
FileKinds ==
    {[readable |-> FALSE, kind |-> "valid", score |-> 0],
     [readable |-> TRUE, kind |-> "empty", score |-> 0],
     [readable |-> TRUE, kind |-> "invalid", score |-> 0]}
    \cup {[readable |-> TRUE, kind |-> "valid", score |-> sc] : sc \in Scores}

FileLists == UNION {[1..n -> FileKinds] : n \in 0..MaxFiles}

\* Keys the agents and nodes read or write in state["agent_outputs"].
AOKeys ==
    {"audit_report", "fix_result", "test_failures", "max_iterations_reached",
     "final_pylint_score", "final_status", "FixerAgent_error",
     "JudgeAgent_error", "original_pylint_score"}

\* dict.get(key, default)
Get(d, key, default) == IF d[key] = None THEN default ELSE d[key][1]

\* {**d, key: value}
Put(d, key, value) == [d EXCEPT ![key] = Some(value)]

\* Python truthiness of state.get("fixed_content"): None and "" are falsy.
Truthy(opt) == opt # None /\ opt[1].kind # "empty"

\* LangGraph merges a node's partial update into the state key by key
\* (WorkflowState declares no reducer: the update's value replaces the old).
Merge(s, upd) == [k \in DOMAIN s |-> IF k \in DOMAIN upd THEN upd[k] ELSE s[k]]

\* The state a per-file run starts from.
initial_state(file_path, content, max_it) ==
    [current_file |-> file_path,
     file_content |-> content,
     current_phase |-> "audit",
     iteration |-> InitialIteration,
     max_iterations |-> max_it,
     audit_report |-> None,
     fix_result |-> None,
     test_result |-> None,
     fixed_content |-> None,
     test_errors |-> <<>>,
     retry_count |-> 0,
     agent_outputs |-> [k \in AOKeys |-> None],
     errors |-> <<>>]

\* ------------------------------------------------------------- variables

VARIABLES
    python_files,        \* the enumerated files, in enumeration order
    max_iterations,      \* RefactoringOrchestrator.max_iterations
    log_action_defined,  \* whether the agents have a log_action method
    pc,                  \* where the Orchestrator / the graph driver stands
    idx,                 \* index of the file being (or next to be) processed
    state,               \* the WorkflowState of the current per-file run
    results,             \* RefactoringOrchestrator.execute: results
    summary,             \* what execute() returns, None until it returns
    audit_runs,          \* AuditorAgent.execute calls in this per-file run
    fix_runs,            \* FixerAgent.execute calls in this per-file run
    judge_runs,          \* JudgeAgent.execute calls in this per-file run
    judged,              \* what the last Judge pass did, None before it
    terminal_declared,   \* an agent or node update said done or error
    observed,            \* what the Auditor and the Fixer did in this run
    environment,         \* what main() finds: the credential, the directory
    fs,                  \* the sandbox, a write request and its outcome
    logger               \* the log file, its concurrent writers, its validation

vars ==
    <<python_files, max_iterations, log_action_defined, pc, idx, state,
      results, summary, audit_runs, fix_runs, judge_runs, judged,
      terminal_declared, observed, environment, fs, logger>>

\* What no step of the workflow changes.
config ==
    <<python_files, max_iterations, log_action_defined, environment, fs,
      logger>>

\* What the sandboxed write operations leave alone.
workflow_vars ==
    <<python_files, max_iterations, log_action_defined, pc, idx, state,
      results, summary, audit_runs, fix_runs, judge_runs, judged,
      terminal_declared, observed, environment, logger>>

\* main(): GOOGLE_API_KEY is set or not, --target_dir exists or not.
Environments == [api_key : BOOLEAN, target_exists : BOOLEAN]

\* No write request is under consideration.
no_write_request == [link |-> FALSE, request |-> None, outcome |-> None]

\* The log file is empty, nobody is writing to it, nobody validated it.
idle_logger ==
    [file |-> <<>>, previous |-> <<>>, threads |-> <<>>, report |-> None]

\* Positions inside graph.invoke().
GraphPcs == {"audit", "fix", "test", "route", "error", "END"}

TerminalPhases == {"done", "error"}

\* Nothing observed yet in a per-file run whose file holds `content`:
\* auditor is what the last Auditor pass did, fixer what the last Fixer
\* pass read, latest_code the latest non-empty code version (the file's
\* content until a Fixer pass produces non-empty code), fixer_llm what the
\* LLM call of the last Fixer pass did ("not_called" when the pass returned
\* before the call).
nothing_observed(content) ==
    [auditor |-> None, fixer |-> None, fixer_llm |-> None,
     fixer_logged |-> <<>>, latest_code |-> content]

Init ==
    /\ python_files \in FileLists
    /\ max_iterations \in IterValues
    /\ log_action_defined \in BOOLEAN
    /\ environment \in Environments
    /\ ~environment.target_exists => python_files = <<>>
    /\ fs = no_write_request
    /\ logger = idle_logger
    /\ pc = "main"
    /\ idx = 1
    /\ state = initial_state(0, Code("empty", 0), max_iterations)
    /\ results = <<>>
    /\ summary = None
    /\ audit_runs = 0
    /\ fix_runs = 0
    /\ judge_runs = 0
    /\ judged = None
    /\ terminal_declared = FALSE
    /\ observed = nothing_observed(Code("empty", 0))

\* ------------------------------------------------------------------ main

\* sys.exit(code): the process is over with that exit code.
sys_exit(code) == IF code = 0 THEN "exit_0" ELSE "exit_1"

\* main(), before the Orchestrator exists: validate_environment() exits 1
\* without GOOGLE_API_KEY, and main() exits 1 when the target directory
\* does not exist; otherwise the Orchestrator is created and executed.
MainValidate ==
    /\ pc = "main"
    /\ pc' = IF environment.api_key /\ environment.target_exists
               THEN "idle" ELSE sys_exit(1)
    /\ UNCHANGED <<config, idx, state, results, summary, audit_runs, fix_runs,
                   judge_runs, judged, terminal_declared, observed>>

\* A variant of main_exit_code that asks for every file to succeed.
main_exit_code_RequiresAll(result) ==
    IF result.success /\ result.files_failed = 0 THEN 0 ELSE 1

\* main(), after execute() returned `result`: the exit code.
main_exit_code(result) ==
    IF result.success \/ result.files_successful > 0 THEN 0 ELSE 1

MainExit ==
    /\ pc = "finished"
    /\ pc' = sys_exit(main_exit_code(summary[1]))
    /\ UNCHANGED <<config, idx, state, results, summary, audit_runs, fix_runs,
                   judge_runs, judged, terminal_declared, observed>>

\* ---------------------------------------------------------- Orchestrator

\* _process_file, except branch: the result recorded for a file whose
\* read or whose graph run raised.
exception_result(file_path) ==
    [file |-> file_path, success |-> FALSE, final_phase |-> "error",
     iterations |-> 0, error |-> TRUE]

\* _process_file, normal return: the result extracted from the final state.
extract_result(file_path, final_state) ==
    [file |-> file_path,
     success |-> (final_state.current_phase = "done"),
     final_phase |-> final_state.current_phase,
     iterations |-> final_state.iteration,
     error |-> FALSE]

\* A variant of RaiseInGraph in which the exception is not caught per file:
\* the loop over the files is abandoned and nothing is recorded.
RaiseInGraph_Aborts ==
    /\ results' = results
    /\ idx' = Len(python_files) + 1
    /\ pc' = "idle"
    /\ UNCHANGED <<config, state, summary>>

\* An exception leaves graph.invoke(): _process_file catches it, records
\* the file as failed, and execute() goes on with the next file.
RaiseInGraph ==
    /\ results' = Append(results, exception_result(idx))
    /\ idx' = idx + 1
    /\ pc' = "idle"
    /\ UNCHANGED <<config, state, summary>>

\* execute(): the loop takes the next file; _process_file reads it and
\* builds the initial state, or catches the read error.
ProcessFile ==
    /\ pc = "idle"
    /\ idx <= Len(python_files)
    /\ LET f == python_files[idx] IN
         IF ~f.readable
           THEN /\ results' = Append(results, exception_result(idx))
                /\ idx' = idx + 1
                /\ pc' = "idle"
                /\ state' = state
           ELSE /\ state' = initial_state(idx, Code(f.kind, 0), max_iterations)
                /\ pc' = "audit"
                /\ UNCHANGED <<results, idx>>
    /\ audit_runs' = 0
    /\ fix_runs' = 0
    /\ judge_runs' = 0
    /\ judged' = None
    /\ terminal_declared' = FALSE
    /\ observed' = nothing_observed(Code(python_files[idx].kind, 0))
    /\ UNCHANGED <<config, summary>>

\* graph.invoke() returned: _process_file extracts the file's result.
FinishFile ==
    /\ pc = "END"
    /\ results' = Append(results, extract_result(idx, state))
    /\ idx' = idx + 1
    /\ pc' = "idle"
    /\ UNCHANGED <<config, state, summary, audit_runs, fix_runs, judge_runs,
                   judged, terminal_declared, observed>>

\* execute() returns its summary once every file has a result (and at
\* once, with the same zero counts, when no file was found).
success_count_CountsAll(rs) == Len(rs)

success_count(rs) == Cardinality({i \in 1..Len(rs) : rs[i].success})

ExecuteReturn ==
    /\ pc = "idle"
    /\ idx > Len(python_files)
    /\ summary' =
         Some([success |-> success_count(results) > 0,
               files_processed |-> Len(results),
               files_successful |-> success_count(results),
               files_failed |-> Len(results) - success_count(results)])
    /\ pc' = "finished"
    /\ UNCHANGED <<config, idx, state, results, audit_runs, fix_runs,
                   judge_runs, judged, terminal_declared, observed>>

\* ---------------------------------------------------------------- agents

\* AnalysisTools.check_syntax: ast.parse accepts everything but a text
\* with a syntax error (the empty text parses).
check_syntax(code) == code.kind # "invalid"

\* The errors list is kept up to ErrorsCap entries.  A run whose Judge
\* counts its retries stays below it (ErrorsBelowCap); the cut only keeps
\* the state of a run that loops for ever finite.
ErrorsCap == RunsCap + 2

\* BaseAgent._create_error_result: no current_phase in the update.
create_error_result(s, name, error) ==
    [agent_outputs |-> Put(s.agent_outputs, name, error),
     errors |-> IF Len(s.errors) < ErrorsCap THEN Append(s.errors, error)
                                             ELSE s.errors]

\* ----------------------------------------------------- the experiment log

\* logger.ActionType
ActionTypes == {"ANALYSIS", "GENERATION", "DEBUG", "FIX"}

\* What details holds under "input_prompt" and under "output_response":
\* no such key ("absent"), the empty text, or a text.
FieldValues == {"absent", "empty", "text"}

details_of(input_prompt, output_response) ==
    [input_prompt |-> input_prompt, output_response |-> output_response]

\* log_experiment validating nothing but the two details fields.
log_experiment_raises_IgnoresAction(action, details) ==
    \/ details.input_prompt = "absent"
    \/ details.output_response = "absent"

\* log_experiment, "Validate required fields" and "Validate action type":
\* whether the call raises ValueError.
log_experiment_raises(action, details) ==
    \/ details.input_prompt = "absent"
    \/ details.output_response = "absent"
    \/ action \notin ActionTypes

\* log_experiment, "Create log entry"
log_entry(agent_name, model_used, action, details, status) ==
    [timestamp |-> "now", agent_name |-> agent_name,
     model_used |-> model_used, action |-> action, status |-> status,
     details |-> details]

\* log_experiment called by one caller at a time: the log after the call.
log_experiment(logs, agent_name, model_used, action, details, status) ==
    IF log_experiment_raises(action, details)
      THEN [raised |-> TRUE, logs |-> logs]
      ELSE [raised |-> FALSE,
            logs |-> Append(logs, log_entry(agent_name, model_used, action,
                                            details, status))]

\* LLMClient.call accepting an empty response text.
llm_call_AcceptsEmpty(answer) == answer

\* LLMClient.call: an empty response text ("no_text") is turned into an
\* exception.
llm_call(answer) == IF answer = "no_text" THEN "raise" ELSE answer

\* The reports the Auditor can put in agent_outputs["audit_report"].
error_report ==
    [kind |-> "error",
     keys |-> {"error", "critical_issues", "major_issues", "minor_issues"}]

validated_plan ==
    [kind |-> "plan",
     keys |-> {"critical_issues", "major_issues", "minor_issues", "summary",
               "file"}]

fallback_plan ==
    [kind |-> "fallback",
     keys |-> {"critical_issues", "major_issues", "minor_issues", "summary",
               "file", "fallback"}]

\* What the LLM call of the Auditor can do: raise (the Auditor then uses
\* its simulated JSON response), answer a JSON object ("json"), answer
\* valid JSON that is no object, or an object whose summary is no object
\* ("other_json"), or answer text no strategy can parse.
AuditorLLM == {"raise", "json", "other_json", "garbage"}

\* AuditorAgent.execute; logged is what the pass appended to the
\* experiment log (through log_action, when the agent has one).
\* Both of its paths end in self.log_action(...),
\* which raises AttributeError when the agent has no such method; and
\* _validate_plan calls setdefault on whatever json.loads returned and on
\* plan["summary"], which raises AttributeError on a list, a string, a
\* number or null (_parse_llm_response_safely catches JSONDecodeError
\* only).
AuditorExecute(s, llm, has_log_action) ==
    IF s.file_content.kind = "empty"
      THEN [raised |-> ~has_log_action,
            llm_called |-> FALSE,
            logged |-> IF has_log_action
                         THEN log_experiment(<<>>, "AuditorAgent", "llm",
                                "ANALYSIS", details_of("text", "text"),
                                "FAILURE").logs
                         ELSE <<>>,
            upd |-> [agent_outputs |->
                       Put(s.agent_outputs, "audit_report", error_report),
                     current_phase |-> "error"]]
      ELSE [raised |-> (~has_log_action \/ llm = "other_json"),
            llm_called |-> TRUE,
            logged |-> IF has_log_action /\ llm # "other_json"
                         THEN log_experiment(<<>>, "AuditorAgent", "llm",
                                "ANALYSIS", details_of("text", "text"),
                                "SUCCESS").logs
                         ELSE <<>>,
            upd |-> [agent_outputs |->
                       Put(s.agent_outputs, "audit_report",
                           IF llm = "garbage" THEN fallback_plan
                                              ELSE validated_plan),
                     current_phase |-> "fix"]]

\* What the LLM call of the Fixer can do: raise, answer no text at all
\* ("no_text"), or answer a text from
\* which _extract_code gets nothing, code that does not parse, or code
\* that parses.
FixerLLM == {"raise", "no_text", "empty", "invalid", "valid"}

\* The report the Fixer works from when the state holds none.
default_audit_report == [kind |-> "default", keys |-> {"summary"}]

\* FixerAgent.execute, "Get inputs": the code, the audit report and the
\* test errors the Fixer builds its prompt from.
FixerInputs(s) ==
    [code |-> IF Truthy(s.fixed_content) THEN s.fixed_content[1]
                                         ELSE s.file_content,
     audit_report |-> IF s.audit_report = None THEN default_audit_report
                                               ELSE s.audit_report[1],
     test_errors |-> s.test_errors]

\* The code _extract_code gets from the answer of the LLM.
extract_code(answer, n) ==
    Code(IF answer = "no_text" THEN "empty" ELSE answer, n)

\* FixerAgent.execute, the log_experiment call: what the pass appended to
\* the experiment log.  Nothing is logged on the two early returns, and
\* nothing when the log file could not be written.
fixer_logged(s, llm, io_ok) ==
    IF FixerInputs(s).code.kind = "empty" \/ llm_call(llm) = "raise" \/ ~io_ok
      THEN <<>>
      ELSE log_experiment(<<>>, "FixerAgent", "llm", "FIX",
             details_of("text", IF llm = "no_text" THEN "empty" ELSE "text"),
             IF check_syntax(extract_code(llm, 0)) THEN "SUCCESS"
                                                   ELSE "FAILURE").logs

\* FixerAgent.execute returning the fixed code as file_content too.
FixerExecute_OverwritesOriginal(s, llm, io_ok, n) ==
    IF FixerInputs(s).code.kind = "empty" \/ llm_call(llm) = "raise"
      THEN [raised |-> FALSE, logged |-> fixer_logged(s, llm, io_ok),
            upd |-> create_error_result(s, "FixerAgent_error", "No fix")]
    ELSE IF ~io_ok
      THEN [raised |-> TRUE, logged |-> <<>>, upd |-> <<>>]
    ELSE [raised |-> FALSE, logged |-> fixer_logged(s, llm, io_ok),
          upd |-> [fixed_content |-> Some(extract_code(llm, n)),
                   file_content |-> extract_code(llm, n)]]

\* FixerAgent.execute dropping the fixed version when the LLM call fails.
FixerExecute_LLMFailureClears(s, llm, io_ok, n) ==
    IF FixerInputs(s).code.kind = "empty"
      THEN [raised |-> FALSE, logged |-> <<>>,
            upd |-> create_error_result(s, "FixerAgent_error", "No code to fix")]
    ELSE IF llm_call(llm) = "raise"
      THEN [raised |-> FALSE, logged |-> <<>>,
            upd |-> [fixed_content |-> None, errors |-> s.errors]]
    ELSE IF ~io_ok
      THEN [raised |-> TRUE, logged |-> <<>>, upd |-> <<>>]
    ELSE [raised |-> FALSE, logged |-> fixer_logged(s, llm, io_ok),
          upd |-> [fixed_content |-> Some(extract_code(llm, n))]]

\* FixerAgent.execute; n numbers the pass.  io_ok is whether the log file
\* could be written by log_experiment (a failed sandbox write is caught).
FixerExecute(s, llm, io_ok, n) ==
    LET code == IF Truthy(s.fixed_content) THEN s.fixed_content[1]
                                           ELSE s.file_content
        fixed_code == extract_code(llm, n)
        fix_result == [iteration |-> s.iteration,
                       syntax_valid |-> check_syntax(fixed_code)]
    IN  IF code.kind = "empty"
          THEN [raised |-> FALSE, logged |-> <<>>,
                upd |-> create_error_result(s, "FixerAgent_error", "No code to fix")]
        ELSE IF llm_call(llm) = "raise"
          THEN [raised |-> FALSE, logged |-> <<>>,
                upd |-> create_error_result(s, "FixerAgent_error", "LLM error")]
        ELSE IF ~io_ok
          THEN [raised |-> TRUE, logged |-> <<>>, upd |-> <<>>]
        ELSE [raised |-> FALSE, logged |-> fixer_logged(s, llm, io_ok),
              upd |-> [fixed_content |-> Some(fixed_code),
                       fix_result |-> Some(fix_result),
                       agent_outputs |->
                         Put(s.agent_outputs, "fix_result", fix_result)]]

\* _evaluate_success with the permissive OR turned into an AND.
_evaluate_success_BothRequired(syntax_valid, runs_without_error, pylint_improved, tests_passed) ==
    syntax_valid /\ runs_without_error /\ pylint_improved /\ tests_passed

\* JudgeAgent._evaluate_success
_evaluate_success(syntax_valid, runs_without_error, pylint_improved, tests_passed) ==
    IF ~syntax_valid THEN FALSE
    ELSE IF ~runs_without_error THEN FALSE
    ELSE pylint_improved \/ tests_passed

\* _handle_test_success recording a baseline above the score it accepted.
_handle_test_success_RaisesBaseline(s, score) ==
    [test_result |-> Some([passed |-> TRUE, errors |-> <<>>,
                           max_iterations_reached |-> FALSE,
                           pylint_score |-> Some(score)]),
     current_phase |-> "done",
     agent_outputs |-> Put(s.agent_outputs, "original_pylint_score", score + 1)]

\* JudgeAgent._handle_test_success
_handle_test_success(s, score) ==
    [test_result |-> Some([passed |-> TRUE, errors |-> <<>>,
                           max_iterations_reached |-> FALSE,
                           pylint_score |-> Some(score)]),
     current_phase |-> "done",
     agent_outputs |-> Put(s.agent_outputs, "final_pylint_score", score)]

\* _handle_test_failure with the cap compared as max_iterations + 1.
_handle_test_failure_CapPlusOne(s, errors) ==
    IF s.retry_count < s.max_iterations + 1
      THEN [test_result |-> Some([passed |-> FALSE, errors |-> errors,
                                  max_iterations_reached |-> FALSE,
                                  pylint_score |-> None]),
            test_errors |-> errors,
            retry_count |-> s.retry_count + 1,
            current_phase |-> "retry",
            agent_outputs |-> Put(s.agent_outputs, "test_failures", errors)]
      ELSE [test_result |-> Some([passed |-> FALSE, errors |-> errors,
                                  max_iterations_reached |-> TRUE,
                                  pylint_score |-> None]),
            current_phase |-> "error",
            agent_outputs |->
              Put(Put(s.agent_outputs, "test_failures", errors),
                  "max_iterations_reached", TRUE)]

\* _handle_test_failure with the increment of retry_count forgotten.
_handle_test_failure_NoIncrement(s, errors) ==
    IF s.retry_count < s.max_iterations - 1
      THEN [test_result |-> Some([passed |-> FALSE, errors |-> errors,
                                  max_iterations_reached |-> FALSE,
                                  pylint_score |-> None]),
            test_errors |-> errors,
            retry_count |-> s.retry_count,
            current_phase |-> "retry",
            agent_outputs |-> Put(s.agent_outputs, "test_failures", errors)]
      ELSE [test_result |-> Some([passed |-> FALSE, errors |-> errors,
                                  max_iterations_reached |-> TRUE,
                                  pylint_score |-> None]),
            current_phase |-> "error",
            agent_outputs |->
              Put(Put(s.agent_outputs, "test_failures", errors),
                  "max_iterations_reached", TRUE)]

\* JudgeAgent._handle_test_failure
_handle_test_failure(s, errors) ==
    IF s.retry_count < s.max_iterations - 1
      THEN [test_result |-> Some([passed |-> FALSE, errors |-> errors,
                                  max_iterations_reached |-> FALSE,
                                  pylint_score |-> None]),
            test_errors |-> errors,
            retry_count |-> s.retry_count + 1,
            current_phase |-> "retry",
            agent_outputs |-> Put(s.agent_outputs, "test_failures", errors)]
      ELSE [test_result |-> Some([passed |-> FALSE, errors |-> errors,
                                  max_iterations_reached |-> TRUE,
                                  pylint_score |-> None]),
            current_phase |-> "error",
            agent_outputs |->
              Put(Put(s.agent_outputs, "test_failures", errors),
                  "max_iterations_reached", TRUE)]

\* The answers the Judge's collaborators give in pass n: whether the test
\* file could be written to the sandbox, whether the code ran (exit 0 in
\* time), the score run_pylint returns (0 when the tool failed), whether
\* pytest passed, and whether the generated test file and the log file
\* could be written; pylint_ok and pytest_ok are whether the tool ran to
\* its end (it is there, did not crash, did not time out: run_pytest
\* answers passed = False otherwise), final_ok whether the final version
\* could be written to the sandbox, generated_tests whether the code held
\* no test of its own (_run_tests then generates basic tests).
JudgeEnv(n) ==
    {e \in [prepare_ok : BOOLEAN, run_ok : BOOLEAN, score : Scores,
            tests_passed : BOOLEAN, io_ok : BOOLEAN, pass : {n},
            pylint_ok : BOOLEAN, pytest_ok : BOOLEAN, final_ok : BOOLEAN,
            generated_tests : BOOLEAN] :
       ~e.pytest_ok => ~e.tests_passed}

\* A failure message of Judge pass n.
Message(msg, n) == [msg |-> msg, pass |-> n]

\* What a Judge pass did: the checks it executed, in order, the signals it
\* computed (FALSE for a signal it did not compute), and the update it
\* returned (verdict "none" when the update sets no current_phase).
JudgeOutcome(raised, upd, code, checks, syntax_valid, runs, improved, tests, score) ==
    [raised |-> raised, upd |-> upd, code |-> code, checks |-> checks,
     syntax_valid |-> syntax_valid, runs_without_error |-> runs,
     pylint_improved |-> improved, tests_passed |-> tests,
     new_score |-> score,
     verdict |-> IF "current_phase" \in DOMAIN upd THEN upd.current_phase
                                                   ELSE "none"]

\* The checks with the early returns dropped: all four always run.
JudgeChecks_NoGate(code, env) ==
    [checks |-> <<"syntax", "run", "pylint", "tests">>,
     syntax_valid |-> check_syntax(code), runs_without_error |-> env.run_ok,
     new_score |-> env.score, tests_passed |-> env.tests_passed]

\* JudgeAgent.execute, steps 1 to 4: the checks run on the code, in order,
\* each one gating the next (a failed syntax check or a failed run returns
\* before the later checks are made).
JudgeChecks(code, env) ==
    IF ~check_syntax(code)
      THEN [checks |-> <<"syntax">>, syntax_valid |-> FALSE,
            runs_without_error |-> FALSE, new_score |-> 0,
            tests_passed |-> FALSE]
    ELSE IF ~env.run_ok
      THEN [checks |-> <<"syntax", "run">>, syntax_valid |-> TRUE,
            runs_without_error |-> FALSE, new_score |-> 0,
            tests_passed |-> FALSE]
    ELSE [checks |-> <<"syntax", "run", "pylint", "tests">>,
          syntax_valid |-> TRUE, runs_without_error |-> TRUE,
          new_score |-> env.score, tests_passed |-> env.tests_passed]

\* _handle_test_success, the write of final_<name>: the state's
\* fixed_content is written when there is one, and a failed write is only
\* logged.
persist_final(s, env) ==
    IF Truthy(s.fixed_content) /\ env.final_ok THEN s.fixed_content
                                                ELSE None

\* JudgeAgent.execute.  Besides the outcome, the result tells what the
\* pass wrote as the final version (persisted), whether a tool it called
\* failed (tool_failed), and what it appended to the experiment log
\* (logged: the one log_experiment call stands after the four checks).
JudgeExecute(s, env) ==
    LET fixed_code == IF Truthy(s.fixed_content) THEN s.fixed_content[1]
                                                 ELSE s.file_content
        c == JudgeChecks(fixed_code, env)
        original_score ==
            Get(s.agent_outputs, "original_pylint_score", DefaultOriginalScore)
        pylint_improved == c.new_score >= original_score
        passed == _evaluate_success(c.syntax_valid, c.runs_without_error,
                                    pylint_improved, c.tests_passed)
        r ==
        IF fixed_code.kind = "empty"
          THEN JudgeOutcome(FALSE,
                 create_error_result(s, "JudgeAgent_error", "No code to test"),
                 fixed_code, <<>>, FALSE, FALSE, FALSE, FALSE, 0)
        ELSE IF ~env.prepare_ok
          THEN JudgeOutcome(FALSE,
                 create_error_result(s, "JudgeAgent_error", "Test setup error"),
                 fixed_code, <<>>, FALSE, FALSE, FALSE, FALSE, 0)
        ELSE IF c.checks = <<"syntax">>
          THEN JudgeOutcome(FALSE,
                 _handle_test_failure(s, <<Message("syntax", env.pass)>>),
                 fixed_code, c.checks, c.syntax_valid, FALSE, FALSE, FALSE, 0)
        ELSE IF c.checks = <<"syntax", "run">>
          THEN JudgeOutcome(FALSE,
                 _handle_test_failure(s, <<Message("runtime", env.pass)>>),
                 fixed_code, c.checks, c.syntax_valid, c.runs_without_error,
                 FALSE, FALSE, 0)
        ELSE IF ~env.io_ok
          THEN JudgeOutcome(TRUE, <<>>, fixed_code, c.checks, c.syntax_valid,
                 c.runs_without_error, pylint_improved, c.tests_passed,
                 c.new_score)
        ELSE IF passed
          THEN JudgeOutcome(FALSE, _handle_test_success(s, c.new_score),
                 fixed_code, c.checks, c.syntax_valid, c.runs_without_error,
                 pylint_improved, c.tests_passed, c.new_score)
        ELSE JudgeOutcome(FALSE,
               _handle_test_failure(s,
                 IF c.tests_passed THEN <<>>
                                   ELSE <<Message("tests", env.pass)>>),
               fixed_code, c.checks, c.syntax_valid, c.runs_without_error,
               pylint_improved, c.tests_passed, c.new_score)
    IN  r @@ [persisted |-> IF r.verdict = "done" THEN persist_final(s, env)
                                                 ELSE None,
              tool_failed |->
                \/ Len(r.checks) >= 2 /\ ~env.run_ok
                \/ Len(r.checks) = 4 /\ (~env.pylint_ok \/ ~env.pytest_ok),
              logged |->
                IF Len(r.checks) = 4 /\ ~r.raised
                  THEN log_experiment(<<>>, "JudgeAgent", "pytest",
                         IF env.generated_tests THEN "GENERATION" ELSE "DEBUG",
                         details_of("text", "text"),
                         IF passed THEN "SUCCESS" ELSE "FAILURE").logs
                  ELSE <<>>]

\* -------------------------------------------------------- workflow graph

\* should_retry_fix taking retry for a passed verdict.
should_retry_fix_RetryEnds(s) ==
    IF s.current_phase \in {"done", "retry"} THEN "done" ELSE "error"

\* should_retry_fix with the cap test made inclusive.
should_retry_fix_CapInclusive(s) ==
    IF s.current_phase = "done" THEN "done"
    ELSE IF s.current_phase = "error" THEN "error"
    ELSE IF s.current_phase = "retry"
      THEN IF s.retry_count <= s.max_iterations THEN "fix" ELSE "error"
    ELSE "error"

\* conditions.should_retry_fix: the conditional edge taken after "test".
should_retry_fix(s) ==
    IF s.current_phase = "done" THEN "done"
    ELSE IF s.current_phase = "error" THEN "error"
    ELSE IF s.current_phase = "retry"
      THEN IF s.retry_count < s.max_iterations THEN "fix" ELSE "error"
    ELSE "error"

\* create_refactoring_graph: where each answer of should_retry_fix leads.
edge_target(answer) ==
    CASE answer = "fix" -> "fix"
      [] answer = "done" -> "END"
      [] answer = "error" -> "error"

\* nodes.audit_node: the Auditor's update with current_phase set to "fix".
AuditNode ==
    /\ pc = "audit"
    /\ \E llm \in AuditorLLM :
         LET r == AuditorExecute(state, llm, log_action_defined) IN
           /\ observed' =
                [observed EXCEPT !.auditor =
                   Some([raised |-> r.raised, llm_called |-> r.llm_called,
                         logged |-> r.logged])]
           /\ IF r.raised
             THEN /\ RaiseInGraph
                  /\ UNCHANGED terminal_declared
             ELSE /\ state' = Merge(state, [r.upd EXCEPT !.current_phase = "fix"])
                  /\ pc' = "fix"
                  /\ terminal_declared' =
                       (terminal_declared \/ r.upd.current_phase \in TerminalPhases)
                  /\ UNCHANGED <<config, idx, results, summary>>
    /\ audit_runs' = Count(audit_runs)
    /\ UNCHANGED <<fix_runs, judge_runs, judged>>

\* nodes.fix_node: the Fixer's update with current_phase set to "test".
FixNode ==
    /\ pc = "fix"
    /\ \E llm \in FixerLLM, io_ok \in BOOLEAN :
         LET r == FixerExecute(state, llm, io_ok, Count(fix_runs)) IN
           /\ observed' =
                [observed EXCEPT
                   !.fixer = Some(FixerInputs(state)),
                   !.fixer_llm =
                     Some(IF FixerInputs(state).code.kind = "empty"
                            THEN "not_called" ELSE llm_call(llm)),
                   !.fixer_logged = r.logged,
                   !.latest_code =
                     IF ~r.raised /\ "fixed_content" \in DOMAIN r.upd
                          /\ Truthy(r.upd.fixed_content)
                       THEN r.upd.fixed_content[1] ELSE @]
           /\ IF r.raised
             THEN RaiseInGraph
             ELSE /\ state' = Merge(Merge(state, r.upd), [current_phase |-> "test"])
                  /\ pc' = "test"
                  /\ UNCHANGED <<config, idx, results, summary>>
    /\ fix_runs' = Count(fix_runs)
    /\ UNCHANGED <<audit_runs, judge_runs, judged, terminal_declared>>

\* The step of the graph driver at "test" with `outcome` what the Judge
\* did: the update is merged and the conditional edge is evaluated next.
TestStep(outcome) ==
    /\ judged' = Some([out |-> outcome, retry_before |-> state.retry_count])
    /\ judge_runs' = Count(judge_runs)
    /\ IF outcome.raised
         THEN /\ RaiseInGraph
              /\ UNCHANGED terminal_declared
         ELSE /\ state' = Merge(state, outcome.upd)
              /\ pc' = "route"
              /\ terminal_declared' =
                   (terminal_declared \/ outcome.verdict \in TerminalPhases)
              /\ UNCHANGED <<config, idx, results, summary>>
    /\ UNCHANGED <<audit_runs, fix_runs, observed>>

\* nodes.test_node: the Judge's update, as the Judge returns it.
TestNode ==
    /\ pc = "test"
    /\ \E env \in JudgeEnv(Count(judge_runs)) : TestStep(JudgeExecute(state, env))

\* The conditional edge out of "test".
Route ==
    /\ pc = "route"
    /\ pc' = edge_target(should_retry_fix(state))
    /\ UNCHANGED <<config, idx, state, results, summary, audit_runs, fix_runs,
                   judge_runs, judged, terminal_declared, observed>>

\* error_node recording the final status only.
ErrorNode_KeepsPhase ==
    /\ pc = "error"
    /\ state' = Merge(state,
                  [agent_outputs |-> Put(state.agent_outputs, "final_status",
                                         "FAILED - Max iterations")])
    /\ pc' = "END"
    /\ terminal_declared' = TRUE
    /\ UNCHANGED <<config, idx, results, summary, audit_runs, fix_runs,
                   judge_runs, judged, observed>>

\* nodes.error_node, followed by the edge error -> END.
ErrorNode ==
    /\ pc = "error"
    /\ state' = Merge(state,
                  [current_phase |-> "error",
                   agent_outputs |-> Put(state.agent_outputs, "final_status",
                                         "FAILED - Max iterations")])
    /\ pc' = "END"
    /\ terminal_declared' = TRUE
    /\ UNCHANGED <<config, idx, results, summary, audit_runs, fix_runs,
                   judge_runs, judged, observed>>

Next ==
    \/ MainValidate
    \/ ProcessFile
    \/ AuditNode
    \/ FixNode
    \/ TestNode
    \/ Route
    \/ ErrorNode
    \/ FinishFile
    \/ ExecuteReturn
    \/ MainExit

Spec == Init /\ [][Next]_vars

\* The program is sequential: whichever step is next is taken.
FairSpec == Spec /\ WF_vars(Next)

\* ------------------------------------ the graph with a Judge test double

\* A Judge that answers retry on every failure and leaves retry_count (and
\* everything else the router reads) alone; its success verdict is the
\* real Judge's.
StubJudgeExecute(s, env) ==
    LET r == JudgeExecute(s, env) IN
      IF r.verdict \in {"retry", "error"}
        THEN [r EXCEPT !.upd = [current_phase |-> "retry"], !.verdict = "retry"]
        ELSE r

StubTestNode ==
    /\ pc = "test"
    /\ \E env \in JudgeEnv(Count(judge_runs)) : TestStep(StubJudgeExecute(state, env))

NextStub ==
    \/ MainValidate
    \/ ProcessFile
    \/ AuditNode
    \/ FixNode
    \/ StubTestNode
    \/ Route
    \/ ErrorNode
    \/ FinishFile
    \/ ExecuteReturn
    \/ MainExit

SpecStub == Init /\ [][NextStub]_vars

\* ------------------------------------------- a directory of several files

\* Runs over directories of up to NumFiles files, each with the iteration
\* cap FilesIter.
InitFiles ==
    /\ python_files \in UNION {[1..n -> FileKinds] : n \in 0..NumFiles}
    /\ max_iterations = FilesIter
    /\ log_action_defined \in BOOLEAN
    /\ environment \in Environments
    /\ ~environment.target_exists => python_files = <<>>
    /\ fs = no_write_request
    /\ logger = idle_logger
    /\ pc = "main"
    /\ idx = 1
    /\ state = initial_state(0, Code("empty", 0), max_iterations)
    /\ results = <<>>
    /\ summary = None
    /\ audit_runs = 0
    /\ fix_runs = 0
    /\ judge_runs = 0
    /\ judged = None
    /\ terminal_declared = FALSE
    /\ observed = nothing_observed(Code("empty", 0))

SpecFiles == InitFiles /\ [][Next]_vars

\* ------------------------------------------------- sandboxed file writes

\* Paths are lists of components, absolute or relative.  The process runs
\* in /w, the sandbox root is /w/sandbox, /w/outside is a directory outside
\* of it, and /w/sandbox/link is, when fs.link holds, a symbolic link to
\* /w/outside.
Cwd == <<"w">>
SandboxDir == <<"w", "sandbox">>
OutsideDir == <<"w", "outside">>
LinkPath == <<"w", "sandbox", "link">>
PathNames == {"..", "w", "sandbox", "outside", "link", "f"}

\* The write requests considered: every path of up to MaxPathLen components.
Requests ==
    [abs : BOOLEAN, parts : UNION {[1..n -> PathNames] : n \in 1..MaxPathLen}]

IsPrefix(a, b) == Len(a) <= Len(b) /\ SubSeq(b, 1, Len(a)) = a

Parent(parts) ==
    IF parts = <<>> THEN <<>> ELSE SubSeq(parts, 1, Len(parts) - 1)

\* os.path.normpath: ".." cancels the component before it, textually; at
\* the root it is dropped, at the start of a relative path it is kept.
RECURSIVE collapse(_, _, _)
collapse(done, rest, abs) ==
    IF rest = <<>> THEN done
    ELSE LET c == Head(rest) IN
      IF c # ".." THEN collapse(Append(done, c), Tail(rest), abs)
      ELSE IF done # <<>> /\ done[Len(done)] # ".."
        THEN collapse(Parent(done), Tail(rest), abs)
      ELSE IF abs THEN collapse(done, Tail(rest), abs)
      ELSE collapse(Append(done, c), Tail(rest), abs)

normpath(p) == [abs |-> p.abs, parts |-> collapse(<<>>, p.parts, p.abs)]

\* os.path.join(base, p) for an absolute base: an absolute p replaces it.
join(base, p) ==
    IF p.abs THEN p ELSE [abs |-> TRUE, parts |-> base \o p.parts]

\* os.path.abspath(p) = normpath(join(os.getcwd(), p))
abspath(p) == normpath(join(Cwd, p))

\* Where a path leads in the file system, as Path.resolve() computes it and
\* as open() and mkdir follow it: components are walked from the root, ".."
\* is the parent of the directory reached so far, and a symbolic link is
\* replaced by its target.
RECURSIVE walk(_, _, _)
walk(link, done, rest) ==
    IF rest = <<>> THEN done
    ELSE LET c == Head(rest)
             step == IF c = ".." THEN Parent(done) ELSE Append(done, c)
             followed == IF link /\ step = LinkPath THEN OutsideDir ELSE step
         IN walk(link, followed, Tail(rest))

resolve(link, p) == walk(link, <<>>, join(Cwd, p).parts)

\* The location is the sandbox root or below it.
InSandbox(location) == IsPrefix(SandboxDir, location)

\* open(path, 'w') raises on a directory.
is_directory(link, location) ==
    location \in {<<>>, Cwd, SandboxDir, OutsideDir}
                 \cup (IF link THEN {} ELSE {LinkPath})

\* FileTools._is_safe_path: the resolved path is relative to the sandbox.
_is_safe_path(link, path) == InSandbox(resolve(link, path))

\* GardeSecurite.chemin_est_securise: the absolute path, as a text, is the
\* sandbox path or starts with the sandbox path and a separator.
chemin_est_securise(chemin_cible) == IsPrefix(SandboxDir, abspath(chemin_cible).parts)

\* GardeSecurite.obtenir_chemin_securise, up to its check: the request is
\* normalised and joined to the sandbox path.
chemin_complet(chemin_relatif) ==
    [abs |-> TRUE,
     parts |-> join(SandboxDir, normpath(chemin_relatif)).parts]

\* What a write operation did: whether it raised, the locations it created
\* or modified, and the location its path leads to.
write_outcome(tool, link, path, accepted) ==
    LET target == resolve(link, path)
        failed == ~accepted \/ is_directory(link, target)
    IN [tool |-> tool, raised |-> failed, target |-> target,
        written |-> IF failed THEN {} ELSE {target}]

\* FileTools.write_file(file_path, content)
WriteFile ==
    /\ fs.request # None
    /\ fs.outcome = None
    /\ LET path == fs.request[1] IN
         fs' = [fs EXCEPT !.outcome =
                  Some(write_outcome("write_file", fs.link, path,
                                     _is_safe_path(fs.link, path)))]
    /\ UNCHANGED workflow_vars

\* OutilsCode.ecrire_fichier(chemin_fichier, contenu)
EcrireFichier ==
    /\ fs.request # None
    /\ fs.outcome = None
    /\ LET chemin == chemin_complet(fs.request[1]) IN
         fs' = [fs EXCEPT !.outcome =
                  Some(write_outcome("ecrire_fichier", fs.link, chemin,
                                     chemin_est_securise(chemin)))]
    /\ UNCHANGED workflow_vars

\* One write request, to either operation, in a sandbox with or without
\* a symbolic link in it.
InitSandbox ==
    /\ python_files = <<>>
    /\ max_iterations = 0
    /\ log_action_defined = TRUE
    /\ environment = [api_key |-> TRUE, target_exists |-> TRUE]
    /\ fs \in [link : BOOLEAN, request : {Some(r) : r \in Requests},
                outcome : {None}]
    /\ logger = idle_logger
    /\ pc = "main"
    /\ idx = 1
    /\ state = initial_state(0, Code("empty", 0), max_iterations)
    /\ results = <<>>
    /\ summary = None
    /\ audit_runs = 0
    /\ fix_runs = 0
    /\ judge_runs = 0
    /\ judged = None
    /\ terminal_declared = FALSE
    /\ observed = nothing_observed(Code("empty", 0))

NextSandbox ==
    \/ WriteFile
    \/ EcrireFichier

SpecSandbox == InitSandbox /\ [][NextSandbox]_vars

\* --------------------------------------- concurrent writers of the log

\* What is left alone by the steps of the logger and of the validator.
non_logger_vars ==
    <<python_files, max_iterations, log_action_defined, pc, idx, state,
      results, summary, audit_runs, fix_runs, judge_runs, judged,
      terminal_declared, observed, environment, fs>>

\* The callers of log_experiment, and the name each logs under.
Threads == 1..NumThreads

CallerName(t) == <<"caller", t>>

\* What a caller passes: an ActionType or the plain text "analyze", and
\* details with or without the two required fields.
LogRequests ==
    [action : {"FIX", "analyze"},
     details : {details_of(a, b) : a, b \in FieldValues}]

\* The entry caller t builds from its request.
entry_of(t) ==
    log_entry(CallerName(t), "llm", logger.threads[t].request.action,
              logger.threads[t].request.details, "SUCCESS")

\* The entry an earlier call left in the log file.
earlier_entry ==
    log_entry(CallerName(0), "llm", "ANALYSIS", details_of("text", "text"),
              "SUCCESS")

InLog(entry, logs) == \E i \in 1..Len(logs) : logs[i] = entry

\* log_experiment up to _logger.log(entry): the request is validated.
LogCall(t) ==
    /\ t \in DOMAIN logger.threads
    /\ logger.threads[t].pc = "call"
    /\ logger' =
         [logger EXCEPT !.threads[t].pc =
            IF log_experiment_raises(logger.threads[t].request.action,
                                     logger.threads[t].request.details)
              THEN "raised" ELSE "read"]
    /\ UNCHANGED non_logger_vars

\* ExperimentLogger.log: logs = self._read_logs(); logs.append(entry).
\* A file that is being rewritten reads as the empty list (JSONDecodeError
\* is caught).
LogRead(t) ==
    /\ t \in DOMAIN logger.threads
    /\ logger.threads[t].pc = "read"
    /\ logger' =
         [logger EXCEPT !.threads[t].pc = "open",
                        !.threads[t].logs = Append(logger.file, entry_of(t))]
    /\ UNCHANGED non_logger_vars

\* ExperimentLogger._write_logs: open(self._log_file, 'w') empties the file.
LogOpen(t) ==
    /\ t \in DOMAIN logger.threads
    /\ logger.threads[t].pc = "open"
    /\ logger' = [logger EXCEPT !.threads[t].pc = "dump", !.file = <<>>]
    /\ UNCHANGED non_logger_vars

\* ExperimentLogger._write_logs: json.dump(logs, f) and the file is closed.
LogDump(t) ==
    /\ t \in DOMAIN logger.threads
    /\ logger.threads[t].pc = "dump"
    /\ logger' = [logger EXCEPT !.threads[t].pc = "done",
                                !.file = logger.threads[t].logs]
    /\ UNCHANGED non_logger_vars

\* NumThreads callers are about to call log_experiment, on a log file
\* that is empty or holds one entry.
InitLogger ==
    /\ python_files = <<>>
    /\ max_iterations = 0
    /\ log_action_defined = TRUE
    /\ environment = [api_key |-> TRUE, target_exists |-> TRUE]
    /\ fs = no_write_request
    /\ \E before \in {<<>>, <<earlier_entry>>},
          requests \in [Threads -> LogRequests] :
         logger = [file |-> before, previous |-> before,
                   threads |-> [t \in Threads |->
                                  [pc |-> "call", request |-> requests[t],
                                   logs |-> <<>>]],
                   report |-> None]
    /\ pc = "main"
    /\ idx = 1
    /\ state = initial_state(0, Code("empty", 0), max_iterations)
    /\ results = <<>>
    /\ summary = None
    /\ audit_runs = 0
    /\ fix_runs = 0
    /\ judge_runs = 0
    /\ judged = None
    /\ terminal_declared = FALSE
    /\ observed = nothing_observed(Code("empty", 0))

NextLogger ==
    \E t \in Threads :
      \/ LogCall(t)
      \/ LogRead(t)
      \/ LogOpen(t)
      \/ LogDump(t)

SpecLogger == InitLogger /\ [][NextLogger]_vars

\* ----------------------------------------------------- the log validator

\* validate_logs: required_fields, required_agents, VALID_ACTIONS,
\* VALID_STATUSES.
required_fields ==
    {"agent", "model", "action", "details", "timestamp", "status"}

required_agents == {"Auditor", "Fixer", "Judge"}

VALID_ACTIONS == ActionTypes \cup {"CODE_ANALYSIS", "CODE_GEN"}

VALID_STATUSES == {"SUCCESS", "FAILURE"}

\* get_agent_base_name on the agent names of the logs considered.
get_agent_base_name(agent_name) ==
    CASE agent_name \in {"Auditor", "AuditorAgent"} -> "Auditor"
      [] agent_name \in {"Fixer", "FixerAgent"} -> "Fixer"
      [] agent_name \in {"Judge", "JudgeAgent"} -> "Judge"
      [] OTHER -> agent_name

\* The check of details with the DEBUG entries left out.
details_errors_ExemptsDebug(entry) ==
    IF "details" \in DOMAIN entry /\ "action" \in DOMAIN entry
         /\ entry.action \in VALID_ACTIONS \ {"DEBUG"}
      THEN {<<f, entry.details[f]>> :
              f \in {g \in {"input_prompt", "output_response"} :
                       entry.details[g] \in {"absent", "empty"}}}
      ELSE {}

\* validate_strict_format, "DETAILS": for an entry with a valid action,
\* input_prompt and output_response must be there and must not be empty.
details_errors(entry) ==
    IF "details" \in DOMAIN entry /\ "action" \in DOMAIN entry
         /\ entry.action \in VALID_ACTIONS
      THEN {<<f, entry.details[f]>> :
              f \in {g \in {"input_prompt", "output_response"} :
                       entry.details[g] \in {"absent", "empty"}}}
      ELSE {}

\* validate_strict_format, the body of the loop: the errors of one entry.
entry_errors(entry) ==
    {<<"missing", f>> : f \in required_fields \ DOMAIN entry}
      \cup (IF "action" \in DOMAIN entry /\ entry.action \notin VALID_ACTIONS
              THEN {<<"invalid", "action">>} ELSE {})
      \cup (IF "status" \in DOMAIN entry /\ entry.status \notin VALID_STATUSES
              THEN {<<"invalid", "status">>} ELSE {})
      \cup (IF "timestamp" \in DOMAIN entry /\ entry.timestamp # "now"
              THEN {<<"invalid", "timestamp">>} ELSE {})
      \cup details_errors(entry)

\* calculate_quality_score, for a log without metadata.iteration.
calculate_quality_score(total_entries, agents, errors, warnings) ==
    LET base == 100 - errors * 15 - warnings * 2
        for_entries == IF total_entries >= 100 THEN 15
                       ELSE IF total_entries >= 50 THEN 10
                       ELSE IF total_entries >= 20 THEN 5 ELSE 0
        for_agents == IF agents >= 5 THEN 10
                      ELSE IF agents >= 3 THEN 5 ELSE 0
        score == base + for_entries + for_agents
    IN IF score < 0 THEN 0 ELSE IF score > 100 THEN 100 ELSE score

\* validate_strict_format on a log file that holds the list `logs` (texts
\* are long enough to raise no warning).
validate_strict_format(logs) ==
    IF Len(logs) = 0
      THEN [is_valid |-> FALSE, errors |-> 1, total_entries |-> 0]
      ELSE
        LET with_agent == {i \in 1..Len(logs) : "agent" \in DOMAIN logs[i]}
            by_agent == {logs[i].agent : i \in with_agent}
            agents_detected == {get_agent_base_name(a) : a \in by_agent}
            bad_entries == {i \in 1..Len(logs) : entry_errors(logs[i]) # {}}
            errors == Cardinality(bad_entries)
                        + (IF required_agents \subseteq agents_detected
                             THEN 0 ELSE 1)
            warnings == IF Len(logs) < 5 THEN 1 ELSE 0
            quality_score ==
                calculate_quality_score(Len(logs), Cardinality(by_agent),
                                        errors, warnings)
        IN [is_valid |-> (errors = 0 /\ quality_score >= 70),
            errors |-> errors, total_entries |-> Len(logs)]

\* The logs handed to the validator: entries in the format the validator
\* asks for, logged in turn by the Auditor, the Fixer and the Judge, with
\* any action and with or without the two details fields; and the log the
\* agents write through log_experiment.
entry_agent(i) == <<"Auditor", "Fixer", "Judge">>[((i - 1) % 3) + 1]

ValidatorDetails ==
    {details_of("text", "text"), details_of("absent", "text"),
     details_of("text", "absent"), details_of("empty", "text"),
     details_of("text", "empty")}

ValidatorChoices ==
    [action : ActionTypes \cup {"UNKNOWN"}, details : ValidatorDetails]

validator_log(n, choice) ==
    [i \in 1..n |->
       [timestamp |-> "now", agent |-> entry_agent(i), model |-> "llm",
        action |-> choice[i].action, details |-> choice[i].details,
        status |-> "SUCCESS"]]

agents_log ==
    <<log_entry("AuditorAgent", "llm", "ANALYSIS",
                details_of("text", "text"), "SUCCESS"),
      log_entry("FixerAgent", "llm", "FIX",
                details_of("text", "text"), "SUCCESS"),
      log_entry("JudgeAgent", "pytest", "DEBUG",
                details_of("text", "text"), "SUCCESS")>>

\* validate_logs.main: the log file is validated once.
ValidateLogs ==
    /\ logger.report = None
    /\ logger' = [logger EXCEPT !.report = Some(validate_strict_format(logger.file))]
    /\ UNCHANGED non_logger_vars

InitValidator ==
    /\ python_files = <<>>
    /\ max_iterations = 0
    /\ log_action_defined = TRUE
    /\ environment = [api_key |-> TRUE, target_exists |-> TRUE]
    /\ fs = no_write_request
    /\ \E n \in 0..MaxLogLen, from_agents \in BOOLEAN :
         \E choice \in [1..n -> ValidatorChoices] :
           LET logs == IF from_agents THEN agents_log
                                      ELSE validator_log(n, choice)
           IN logger = [file |-> logs, previous |-> logs, threads |-> <<>>,
                        report |-> None]
    /\ pc = "main"
    /\ idx = 1
    /\ state = initial_state(0, Code("empty", 0), max_iterations)
    /\ results = <<>>
    /\ summary = None
    /\ audit_runs = 0
    /\ fix_runs = 0
    /\ judge_runs = 0
    /\ judged = None
    /\ terminal_declared = FALSE
    /\ observed = nothing_observed(Code("empty", 0))

SpecValidator == InitValidator /\ [][ValidateLogs]_vars

\* ------------------------------------- the conditional edge on its own

\* The phases should_retry_fix can be handed, and one it does not know.
RoutePhases == {"audit", "fix", "test", "retry", "done", "error", "unknown"}

\* should_retry_fix applied to every state of a small domain: any phase,
\* any retry_count up to one above the cap, any cap, with and without a
\* fixed version of the code.
RouteInit ==
    /\ python_files = <<[readable |-> TRUE, kind |-> "valid", score |-> 0]>>
    /\ max_iterations \in IterValues
    /\ log_action_defined = TRUE
    /\ environment = [api_key |-> TRUE, target_exists |-> TRUE]
    /\ fs = no_write_request
    /\ logger = idle_logger
    /\ pc = "route"
    /\ idx = 1
    /\ \E ph \in RoutePhases, rc \in 0..(MaxIter + 1),
          fc \in {None, Some(Code("valid", 1))} :
         state = [initial_state(1, Code("valid", 0), max_iterations)
                    EXCEPT !.current_phase = ph, !.retry_count = rc,
                           !.fixed_content = fc]
    /\ results = <<>>
    /\ summary = None
    /\ audit_runs = 1
    /\ fix_runs = 1
    /\ judge_runs = 1
    /\ judged = None
    /\ terminal_declared = FALSE
    /\ observed = nothing_observed(Code("valid", 0))

RouteNext ==
    \/ Route
    \/ ErrorNode
    \/ FinishFile

SpecRoute == RouteInit /\ [][RouteNext]_vars

\* No run of the graph fills the errors list up to ErrorsCap.
ErrorsBelowCap == pc \in GraphPcs => Len(state.errors) < ErrorsCap

\* ---------------------------------------------------------------- claims

\* The last Judge pass of the current per-file run.
LastJudged == judged[1].out

FailVerdicts == {"retry", "error"}

C3_DriverEnforcesBound == max_iterations >= 1 => judge_runs <= max_iterations

C7_CheckOrder ==
    judged # None
      => /\ \E n \in 0..4 :
              LastJudged.checks = SubSeq(<<"syntax", "run", "pylint", "tests">>, 1, n)
         /\ (LastJudged.checks # <<>> /\ ~check_syntax(LastJudged.code))
              => /\ LastJudged.checks = <<"syntax">>
                 /\ LastJudged.verdict \in FailVerdicts
         /\ (Len(LastJudged.checks) >= 2 /\ ~LastJudged.runs_without_error)
              => /\ LastJudged.checks = <<"syntax", "run">>
                 /\ LastJudged.verdict \in FailVerdicts

\* A pass stopped at the syntax gate.
C7_Witness ==
    /\ judged # None
    /\ LastJudged.checks = <<"syntax">>
    /\ LastJudged.verdict \in FailVerdicts

C9_RetryMonotonic ==
    [][(pc \in GraphPcs)
         => (IF pc = "test" /\ pc' = "route" /\ state'.current_phase = "retry"
               THEN state'.retry_count = state.retry_count + 1
               ELSE state'.retry_count = state.retry_count)]_vars

\* The run is back at the Fixer with retry_count incremented.
C9_Witness == pc = "fix" /\ state.retry_count >= 1 /\ fix_runs >= 1

C12_RetryTransient ==
    /\ [][(pc = "route" /\ state.current_phase = "retry")
            => (/\ pc' \in {"fix", "error"}
                /\ state.retry_count = judged[1].retry_before + 1)]_vars
    /\ [][(pc = "fix" /\ state.current_phase = "retry")
            => (fix_runs' = fix_runs + 1)]_vars
    /\ [](pc = "END" => state.current_phase # "retry")
    /\ [](\A i \in 1..Len(results) : results[i].final_phase # "retry")

\* The Fixer has run again after a retry verdict.
C12_Witness ==
    /\ pc = "test"
    /\ fix_runs >= 2
    /\ state.retry_count >= 1

C14_RoutePure ==
    [][(pc = "route")
         => (/\ state' = state
             /\ pc' = (IF state.current_phase = "done" THEN "END"
                       ELSE IF /\ state.current_phase = "retry"
                               /\ state.retry_count < state.max_iterations
                         THEN "fix"
                       ELSE "error"))]_vars

\* A retry at the cap was sent to the error node.
C14_Witness ==
    /\ pc = "error"
    /\ state.current_phase = "retry"
    /\ state.retry_count >= state.max_iterations

\* C15: in every state of a per-file run max_iterations, current_file and
\* file_content are what the Orchestrator put in the initial state.
C15_InputsImmutable ==
    pc \in GraphPcs
      => /\ state.max_iterations = max_iterations
         /\ state.current_file = idx
         /\ state.file_content = Code(python_files[idx].kind, 0)

\* A run that went twice through the Fixer and has a fixed version.
C15_Witness ==
    /\ pc = "END"
    /\ fix_runs >= 2
    /\ Truthy(state.fixed_content)

C20_EmptyFile ==
    /\ [][(pc = "audit" /\ state.file_content.kind = "empty")
            => (/\ pc' = "fix"
                /\ ~observed'.auditor[1].llm_called
                /\ state'.agent_outputs["audit_report"] = Some(error_report))]_vars
    /\ [](\A i \in 1..Len(results) :
            (python_files[i].readable /\ python_files[i].kind = "empty")
              => ~results[i].success)

\* C21: for a non-empty file, whatever the LLM call does, the Auditor
\* returns, and its audit report has the keys critical_issues,
\* major_issues, minor_issues and summary.
C21_ReportHasFourKeys ==
    (observed.auditor # None /\ state.file_content.kind # "empty")
      => /\ ~observed.auditor[1].raised
         /\ state.agent_outputs["audit_report"] # None
         /\ {"critical_issues", "major_issues", "minor_issues", "summary"}
              \subseteq state.agent_outputs["audit_report"][1].keys

\* C22: no exception leaves execute() of an agent: a file that could be
\* read is never recorded through the except branch of _process_file.
C22_NoExceptionEscapes ==
    \A i \in 1..Len(results) : results[i].error => ~python_files[i].readable

\* C23: a Fixer pass whose LLM call fails raises nothing, leaves
\* fixed_content as it was, and the run goes on to the Judge.
C23_FixerLLMFailure ==
    [][(pc = "fix" /\ observed'.fixer_llm = Some("raise"))
         => (/\ pc' = "test"
             /\ state'.fixed_content = state.fixed_content)]_vars

\* The LLM call failed on a later pass and the earlier fixed version is
\* what the Judge gets.
C23_Witness ==
    /\ pc = "test"
    /\ observed.fixer_llm = Some("raise")
    /\ Truthy(state.fixed_content)

C25_DoneIdempotent ==
    pc = "test"
      => \A env \in JudgeEnv(Count(judge_runs)) :
           LET r == JudgeExecute(state, env) IN
             (~r.raised /\ r.verdict = "done")
               => \A rc \in 0..MaxIter, it \in 1..(MaxIter + 1) :
                    JudgeExecute([Merge(state, r.upd) EXCEPT
                                    !.retry_count = rc, !.iteration = it],
                                 env).verdict = "done"

\* The Judge has answered done on a fixed version after a retry.
C25_Witness ==
    /\ pc = "route"
    /\ judged # None
    /\ LastJudged.verdict = "done"
    /\ state.retry_count >= 1

C27_FailingFileIsolated ==
    /\ \A i \in 1..Len(results) :
         /\ results[i].file = i
         /\ results[i].error => (~results[i].success /\ results[i].final_phase = "error")
         /\ ~python_files[i].readable => results[i].error
    /\ pc \in {"idle", "main"} \cup GraphPcs => Len(results) = idx - 1
    /\ pc = "finished" => Len(results) = Len(python_files)

\* A directory whose first file raised and whose second file succeeded.
C27_Witness ==
    /\ pc = "finished"
    /\ Len(results) = 2
    /\ results[1].error
    /\ results[2].success

\* C28: in the summary execute() returns, files_processed is the number of
\* enumerated files, files_successful the number of files whose final phase
\* is done, and files_failed their difference, files that raised included.
C28_SummaryAggregates ==
    summary # None =>
      LET r == summary[1] IN
        /\ r.files_processed = Len(python_files)
        /\ r.files_successful =
             Cardinality({i \in 1..Len(results) : results[i].final_phase = "done"})
        /\ r.files_failed = r.files_processed - r.files_successful
        /\ r.files_successful + r.files_failed = r.files_processed

\* A summary over two files: the first succeeded, the second raised.
C28_Witness ==
    /\ summary # None
    /\ summary[1].files_processed = 2
    /\ results[1].success
    /\ results[2].error

\* C29: the process exits with 0 exactly when at least one file ended in
\* phase done, with 1 when none did (an empty directory included), and with
\* a non-zero code and no file processed when the credential or the target
\* directory is missing.
C29_ExitCode ==
    LET some_done == \E i \in 1..Len(results) : results[i].final_phase = "done"
        usable == environment.api_key /\ environment.target_exists
    IN /\ pc = "exit_0" => (usable /\ summary # None /\ some_done)
       /\ pc = "exit_1" => ~some_done
       /\ ~usable => (pc \in {"main", "exit_1"} /\ results = <<>> /\ summary = None)

\* The process exited with 0 although one of two files failed.
C29_Witness ==
    /\ pc = "exit_0"
    /\ Len(results) = 2
    /\ \E i \in 1..2 : ~results[i].success

\* C30: a write request whose path leads outside the sandbox root is
\* refused by FileTools.write_file and by OutilsCode.ecrire_fichier before
\* anything is created or modified.
C30_RejectBeforeWrite ==
    fs.outcome # None =>
      LET o == fs.outcome[1] IN
        ~InSandbox(o.target) => (o.raised /\ o.written = {})

C38_FinalPhaseTerminal ==
    \A i \in 1..Len(results) :
      /\ results[i].final_phase \in {"done", "error"}
      /\ results[i].success <=> (results[i].final_phase = "done")

\* A file whose run returned through the error node after a retry.
C38_Witness ==
    /\ Len(results) = 1
    /\ ~results[1].error
    /\ results[1].final_phase = "error"
    /\ judge_runs >= 2

C40_RetryBelowCap ==
    (pc = "route" /\ judged # None /\ ~LastJudged.raised
       /\ LastJudged.verdict = "retry") =>
      /\ state.current_phase = "retry"
      /\ state.retry_count < state.max_iterations
      /\ should_retry_fix(state) = "fix"

\* The Judge has just asked for a retry.
C40_Witness ==
    /\ pc = "route"
    /\ judged # None
    /\ LastJudged.verdict = "retry"
    /\ state.retry_count = state.max_iterations - 1

\* The entries the agents appended to the experiment log in their last
\* passes of the current per-file run.
AgentEntries ==
    LET seqs == <<IF observed.auditor = None THEN <<>>
                                             ELSE observed.auditor[1].logged,
                  observed.fixer_logged,
                  IF judged = None THEN <<>> ELSE LastJudged.logged>>
    IN UNION {{seqs[k][j] : j \in 1..Len(seqs[k])} : k \in 1..3}

\* C31: every pass of the Auditor and every pass of the Judge appends
\* exactly one entry to the experiment log, whichever path it takes.
C31_OneLogEntryPerPass ==
    /\ observed.auditor # None => Len(observed.auditor[1].logged) = 1
    /\ judged # None => Len(LastJudged.logged) = 1

\* C33: every entry an agent appended to the experiment log holds a
\* non-empty input_prompt and a non-empty output_response in its details.
C33_LogFieldsComplete ==
    \A entry \in AgentEntries :
      /\ entry.details.input_prompt = "text"
      /\ entry.details.output_response = "text"

\* The Fixer and the Judge have both logged their pass.
C33_Witness ==
    /\ observed.fixer_logged # <<>>
    /\ judged # None
    /\ LastJudged.logged # <<>>

\* C32: a call of log_experiment whose details lack input_prompt or
\* output_response, or whose action is no ActionType, raises and appends
\* nothing: the caller never reaches the log file.
C32_InvalidEntryRejected ==
    \A t \in DOMAIN logger.threads :
      (\/ logger.threads[t].request.details.input_prompt = "absent"
       \/ logger.threads[t].request.details.output_response = "absent"
       \/ logger.threads[t].request.action \notin ActionTypes) =>
        /\ logger.threads[t].pc \in {"call", "raised"}
        /\ ~InLog(entry_of(t), logger.file)

\* One caller was turned away while the other one logged its entry.
C32_Witness ==
    /\ DOMAIN logger.threads = Threads
    /\ logger.threads[1].pc = "raised"
    /\ logger.threads[2].pc = "done"
    /\ InLog(entry_of(2), logger.file)

\* C34: every entry a caller got into the log file has the top-level
\* fields timestamp, agent, model, action, details and status, which the
\* validator requires.
C34_EntryFormat ==
    \A t \in DOMAIN logger.threads :
      InLog(entry_of(t), logger.file)
        => required_fields \subseteq DOMAIN entry_of(t)

\* C35: once the concurrent callers are through, the entry of every caller
\* that was not turned away is in the log file, next to what the file held
\* before.
C35_NoLostEntry ==
    (/\ DOMAIN logger.threads = Threads
     /\ \A t \in Threads : logger.threads[t].pc \in {"done", "raised"})
      => /\ \A t \in Threads :
              logger.threads[t].pc = "done" => InLog(entry_of(t), logger.file)
         /\ \A i \in 1..Len(logger.previous) :
              InLog(logger.previous[i], logger.file)

====
